---- MODULE Spec2Model ----
(***************************************************************************)
(* Prime-field arithmetic and the elliptic-curve group law of ecc.py, in   *)
(* affine and projective coordinates.                                      *)
(*                                                                         *)
(* The kernel is a set of pure functions.  Each function of ecc.py is an   *)
(* operator here, computed statement by statement as the Python computes   *)
(* it, and the state machine is a caller that invokes one function at a    *)
(* time on inputs drawn from bounded sets and records the call together    *)
(* with its outcome (a returned value or a raised exception).              *)
(*                                                                         *)
(* Scaling.  ecc.py works over the 256-bit prime of secp256r1, far beyond  *)
(* the integers TLC evaluates.  The model keeps the code and replaces the  *)
(* modulus by a small prime, with A = MOD - 3 as in the source.  The curve *)
(* coefficient B does not occur in ecc.py at all: the code never reads it, *)
(* so the model ranges over every non-singular curve                       *)
(* y^2 = x^3 + A*x + B over the small field, B being determined by the     *)
(* point.  The module-level test vectors (BASE_POINT, K_2, K_3 and the     *)
(* asserts of lines 149-160) are 256-bit values and are not modelled.      *)
(***************************************************************************)
EXTENDS Integers, Sequences, FiniteSets, TLC

\* ecc.py:3, scaled down to a small prime (see above).
MOD == 11

\* ecc.py:150: A = MOD - 3.
A == MOD - 3

\* How far outside [0, MOD) the field inputs of the caller range.
MaxOver == 1

\* The projective inputs are the affine points scaled by 1..MaxZ.
MaxZ == 2

VARIABLES
    op,     \* the function the caller invokes
    args,   \* its arguments
    res     \* its outcome, Pending until the call has been made

vars == <<op, args, res>>

----------------------------------------------------------------------------
(* Outcomes.  A call either returns a value or raises; fop records whether *)
(* evaluating it invoked any function of the field layer.                  *)

Ret(v) == [exc |-> "", v |-> v, fop |-> FALSE]

Raise(e) == [exc |-> e, fop |-> FALSE]

Ok(r) == r.exc = ""

\* The outcome of a field-layer function: the same outcome, marked.
FieldCall(r) ==
    IF Ok(r) THEN [exc |-> "", v |-> r.v, fop |-> TRUE]
    ELSE [exc |-> r.exc, fop |-> TRUE]

\* Statement sequencing: r1 is evaluated, then r2; an exception in r1
\* propagates.
Then(r1, r2) ==
    IF ~Ok(r1) THEN r1
    ELSE IF Ok(r2) THEN [exc |-> "", v |-> r2.v, fop |-> r1.fop \/ r2.fop]
    ELSE [exc |-> r2.exc, fop |-> r1.fop \/ r2.fop]

\* F(e1) and F(e1, e2) where the argument expressions are themselves calls:
\* arguments are evaluated left to right and an exception propagates.
Bind1(F(_), ra) ==
    IF ~Ok(ra) THEN ra ELSE Then(ra, F(ra.v))

Bind2(F(_, _), ra, rb) ==
    IF ~Ok(ra) THEN ra
    ELSE IF ~Ok(rb) THEN Then(ra, rb)
    ELSE Then(ra, Then(rb, F(ra.v, rb.v)))

----------------------------------------------------------------------------
(* Field layer, ecc.py:9-51.                                               *)

mul(a, b) ==
    FieldCall(IF ~(a < MOD /\ b < MOD /\ a >= 0 /\ b >= 0)
              THEN Raise("AssertionError")
              ELSE Ret((a * b) % MOD))

\* sub with the add-back taken for a zero difference as well.
sub_addback_on_zero(a, b) ==
    LET dif == a - b
    IN  FieldCall(IF dif <= 0 THEN Ret(dif + MOD) ELSE Ret(dif))

sub(a, b) ==
    LET dif == a - b
    IN  FieldCall(IF dif < 0 THEN Ret(dif + MOD) ELSE Ret(dif))

add(a, b) ==
    FieldCall(IF ~(a < MOD /\ b < MOD /\ a >= 0 /\ b >= 0)
              THEN Raise("AssertionError")
              ELSE LET sum == a + b IN sub(sum, MOD))

neg(a) ==
    FieldCall(IF ~(a < MOD /\ a >= 0)
              THEN Raise("AssertionError")
              ELSE sub(0, a))

sqr(a) == FieldCall(mul(a, a))

\* The while loop of inverse, ecc.py:41-45; the result is the loop's final
\* t and r.  The caller passes a >= 0 (Python's // and % agree with \div
\* and % for a positive divisor).
RECURSIVE inverse_loop(_, _, _, _)
inverse_loop(t, new_t, r, new_r) ==
    IF new_r # 0
    THEN LET quotient == r \div new_r
             remainder == r % new_r
         IN  inverse_loop(new_t, t - quotient * new_t, new_r, remainder)
    ELSE [t |-> t, r |-> r]

\* inverse without the normalisation of a negative coefficient.
inverse_unnormalised(a) ==
    LET fin == inverse_loop(0, 1, MOD, a)
        t == fin.t
    IN  FieldCall(IF ~(fin.r = 1) THEN Raise("AssertionError")
                  ELSE IF ~(t > 0) THEN Raise("AssertionError")
                  ELSE IF ~(t < MOD) THEN Raise("AssertionError")
                  ELSE Ret(t))

inverse(a) ==
    LET fin == inverse_loop(0, 1, MOD, a)
        t == IF fin.t < 0 THEN fin.t + MOD ELSE fin.t
    IN  FieldCall(IF ~(fin.r = 1) THEN Raise("AssertionError")
                  ELSE IF ~(t > 0) THEN Raise("AssertionError")
                  ELSE IF ~(t < MOD) THEN Raise("AssertionError")
                  ELSE Ret(t))

div(a, b) ==
    FieldCall(IF ~(a < MOD /\ b < MOD /\ a >= 0 /\ b >= 0)
              THEN Raise("AssertionError")
              ELSE Bind2(mul, Ret(a), inverse(b)))

----------------------------------------------------------------------------
(* Curve layer, ecc.py:53-145.                                             *)

\* Python's None, the identity of the affine group.
None == [none |-> TRUE]

\* Affine.__init__, ecc.py:54-56.
Affine(x, y) == [x |-> x, y |-> y]

\* Projective.__init__, ecc.py:106-109.
Projective(x, y, z) == [x |-> x, y |-> y, z |-> z]

\* isinstance(other, Affine)
IsAffine(other) == DOMAIN other = {"x", "y"}

\* Affine.__eq__, ecc.py:100-103.  NotImplemented makes Python fall back to
\* comparing identities, which is False for two distinct objects.
Affine_eq(self, other) ==
    IF ~IsAffine(other) THEN FALSE
    ELSE self.x = other.x /\ self.y = other.y

\* l == r as Affine.add uses it: None == None is True, an Affine against
\* None is False (NotImplemented on both sides), otherwise Affine.__eq__.
PyEq(l, r) ==
    IF l = None \/ r = None THEN l = None /\ r = None
    ELSE Affine_eq(l, r)

\* Affine.neg that leaves y as it is.
Affine_neg_keeps_y(self) ==
    LET y == neg(self.y)
    IN  IF ~Ok(y) THEN y ELSE Then(y, Ret(Affine(self.x, self.y)))

\* Affine.neg, ecc.py:61-62.
Affine_neg(self) ==
    LET y == neg(self.y)
    IN  IF ~Ok(y) THEN y ELSE Then(y, Ret(Affine(self.x, y.v)))

\* Affine.add with one slip, named by bug:
\*   "returns_rhs"  the rhs == None case returns rhs instead of self;
\*   "no_negation"  the self.neg() == rhs case is not dispatched;
\*   "x_twice_self" x is slope^2 - self.x - self.x.
Affine_add_variant(self, rhs, bug) ==
    IF PyEq(self, None) THEN Ret(rhs)
    ELSE IF PyEq(rhs, None)
         THEN (IF bug = "returns_rhs" THEN Ret(rhs) ELSE Ret(self))
    ELSE LET negated == Affine_neg(self)
         IN  IF ~Ok(negated) THEN negated
             ELSE IF bug # "no_negation" /\ PyEq(negated.v, rhs)
                  THEN Then(negated, Ret(None))
             ELSE LET chord ==
                          LET y_diff == sub(rhs.y, self.y)
                              x_diff == sub(rhs.x, self.x)
                          IN  Then(y_diff, Then(x_diff,
                                  Bind2(div, sub(rhs.y, self.y),
                                             sub(rhs.x, self.x))))
                      tangent ==
                          LET slope1 == mul(self.x, self.x)
                              slope2 == Bind2(mul, slope1, Ret(3))
                              slope3 == Bind2(add, slope2, Ret(A))
                              temp == mul(2, self.y)
                          IN  Bind2(div, slope3, temp)
                      slope == Then(negated,
                                    IF ~PyEq(self, rhs) THEN chord ELSE tangent)
                      x1 == Bind1(sqr, slope)
                      x2 == Bind2(sub, x1, Ret(self.x))
                      x == Bind2(sub, x2,
                                 IF bug = "x_twice_self" THEN Ret(self.x)
                                 ELSE Ret(rhs.x))
                      y1 == Bind2(mul, slope, Bind2(sub, Ret(self.x), x))
                      y == Bind2(sub, y1, Ret(self.y))
                 IN  IF ~Ok(x) THEN x
                     ELSE IF ~Ok(y) THEN y
                     ELSE Then(y, Ret(Affine(x.v, y.v)))

Affine_add_returns_rhs(self, rhs) ==
    Affine_add_variant(self, rhs, "returns_rhs")

Affine_add_no_negation(self, rhs) ==
    Affine_add_variant(self, rhs, "no_negation")

Affine_add_x_twice_self(self, rhs) ==
    Affine_add_variant(self, rhs, "x_twice_self")

\* Affine.add, ecc.py:64-92.  self and rhs are Affine points or None.
Affine_add(self, rhs) ==
    IF PyEq(self, None) THEN Ret(rhs)
    ELSE IF PyEq(rhs, None) THEN Ret(self)
    ELSE LET negated == Affine_neg(self)
         IN  IF ~Ok(negated) THEN negated
             ELSE IF PyEq(negated.v, rhs) THEN Then(negated, Ret(None))
             ELSE LET chord ==
                          LET y_diff == sub(rhs.y, self.y)
                              x_diff == sub(rhs.x, self.x)
                          IN  Then(y_diff, Then(x_diff,
                                  Bind2(div, sub(rhs.y, self.y),
                                             sub(rhs.x, self.x))))
                      tangent ==
                          LET slope1 == mul(self.x, self.x)
                              slope2 == Bind2(mul, slope1, Ret(3))
                              slope3 == Bind2(add, slope2, Ret(A))
                              temp == mul(2, self.y)
                          IN  Bind2(div, slope3, temp)
                      slope == Then(negated,
                                    IF ~PyEq(self, rhs) THEN chord ELSE tangent)
                      x1 == Bind1(sqr, slope)
                      x2 == Bind2(sub, x1, Ret(self.x))
                      x == Bind2(sub, x2, Ret(rhs.x))
                      y1 == Bind2(mul, slope, Bind2(sub, Ret(self.x), x))
                      y == Bind2(sub, y1, Ret(self.y))
                 IN  IF ~Ok(x) THEN x
                     ELSE IF ~Ok(y) THEN y
                     ELSE Then(y, Ret(Affine(x.v, y.v)))

\* Affine.double, ecc.py:94-95.
Affine_double(self) == Affine_add(self, self)

\* Affine.as_projective, ecc.py:97-98.
Affine_as_projective(self) == Ret(Projective(self.x, self.y, 1))

\* Projective.neg, ecc.py:113-114: Affine.__init__ takes two coordinates
\* and is called with three, which raises TypeError once the arguments have
\* been evaluated.
Projective_neg(self) ==
    LET y == neg(self.y)
    IN  IF ~Ok(y) THEN y ELSE Then(y, Raise("TypeError"))

\* Projective.as_affine, ecc.py:116-120.
Projective_as_affine(self) ==
    IF self.z = 0 THEN Ret(None)
    ELSE LET inv == inverse(self.z)
             x == Bind2(mul, Ret(self.x), inv)
             y == Bind2(mul, Ret(self.y), inv)
         IN  IF ~Ok(x) THEN x
             ELSE IF ~Ok(y) THEN y
             ELSE Then(y, Ret(Affine(x.v, y.v)))

\* Projective.add with a = u^2*w - v^3 - v^2*v_2 (the factor 2 dropped).
Projective_add_no_factor(self, rhs) ==
    LET u_1 == mul(rhs.y, self.z)
        u_2 == mul(self.y, rhs.z)
        v_1 == mul(rhs.x, self.z)
        v_2 == mul(self.x, rhs.z)
        u == Bind2(sub, u_1, u_2)
        v == Bind2(sub, v_1, v_2)
        v_sqr == Bind1(sqr, v)
        v_cube == Bind2(mul, v_sqr, v)
        v_sqr_v_2 == Bind2(mul, v_sqr, v_2)
        w == mul(self.z, rhs.z)
        a1 == Bind2(mul, Bind1(sqr, u), w)
        a2 == Bind2(sub, a1, v_cube)
        a3 == Bind2(sub, a2, v_sqr_v_2)
        x == Bind2(mul, v, a3)
        y1 == Bind2(sub, v_sqr_v_2, a3)
        y2 == Bind2(mul, y1, u)
        y == Bind2(sub, y2, Bind2(mul, v_cube, u_2))
        z == Bind2(mul, v_cube, w)
    IN  IF ~Ok(x) THEN x
        ELSE IF ~Ok(y) THEN y
        ELSE IF ~Ok(z) THEN z
        ELSE Then(z, Ret(Projective(x.v, y.v, z.v)))

\* Projective.add, ecc.py:122-145.
Projective_add(self, rhs) ==
    LET u_1 == mul(rhs.y, self.z)
        u_2 == mul(self.y, rhs.z)
        v_1 == mul(rhs.x, self.z)
        v_2 == mul(self.x, rhs.z)
        u == Bind2(sub, u_1, u_2)
        v == Bind2(sub, v_1, v_2)
        v_sqr == Bind1(sqr, v)
        v_cube == Bind2(mul, v_sqr, v)
        v_sqr_v_2 == Bind2(mul, v_sqr, v_2)
        w == mul(self.z, rhs.z)
        a1 == Bind2(mul, Bind1(sqr, u), w)
        a2 == Bind2(sub, a1, v_cube)
        a3 == Bind2(sub, a2, Bind2(mul, Ret(2), v_sqr_v_2))
        x == Bind2(mul, v, a3)
        y1 == Bind2(sub, v_sqr_v_2, a3)
        y2 == Bind2(mul, y1, u)
        y == Bind2(sub, y2, Bind2(mul, v_cube, u_2))
        z == Bind2(mul, v_cube, w)
    IN  IF ~Ok(x) THEN x
        ELSE IF ~Ok(y) THEN y
        ELSE IF ~Ok(z) THEN z
        ELSE Then(z, Ret(Projective(x.v, y.v, z.v)))

----------------------------------------------------------------------------
(* The inputs of the caller.                                               *)

\* The field elements, [0, MOD).
FieldElems == 0 .. (MOD - 1)

\* Integers handed to the field functions: the field and a margin outside.
FieldInputs == (0 - MaxOver) .. (MOD - 1 + MaxOver)

\* inverse is called on non-negative integers (see inverse_loop).
InverseInputs == 0 .. (MOD - 1 + MaxOver)

\* The coefficient B of the curve y^2 = x^3 + A*x + B that (x, y) lies on.
CurveB(P) == (P.y * P.y - P.x * P.x * P.x - A * P.x) % MOD

\* The curve with coefficient B is an elliptic curve (non-zero discriminant).
NonSingular(B) == (4 * A * A * A + 27 * B * B) % MOD # 0

\* The non-identity affine points: every point of every elliptic curve.
AffinePoints ==
    {P \in {Affine(x, y) : x \in FieldElems, y \in FieldElems} :
        NonSingular(CurveB(P))}

\* P and Q are points of one curve; the identity lies on every curve.
SameCurve(P, Q) ==
    IF P = None THEN TRUE
    ELSE IF Q = None THEN TRUE
    ELSE CurveB(P) = CurveB(Q)

\* A returned affine value is the identity or a point of the curve of P.
OnCurveOf(R, P) ==
    IF R = None THEN TRUE
    ELSE /\ IsAffine(R)
         /\ R.x \in FieldElems /\ R.y \in FieldElems
         /\ SameCurve(R, P)

\* The projective triples standing for affine points, and for the identity.
ProjectivePoints ==
    {Projective((P.x * k) % MOD, (P.y * k) % MOD, k) :
        P \in AffinePoints, k \in 1 .. MaxZ}
    \cup {Projective(0, k, 0) : k \in 1 .. MaxZ}

\* The affine point a projective triple stands for (exact division in the
\* field), None for z = 0.
AffineOf(T) ==
    IF T.z = 0 THEN None
    ELSE CHOOSE P \in {Affine(x, y) : x \in FieldElems, y \in FieldElems} :
            (P.x * T.z) % MOD = T.x /\ (P.y * T.z) % MOD = T.y

\* Every triple of field elements.
Triples ==
    {Projective(x, y, z) : x \in FieldElems, y \in FieldElems, z \in FieldElems}

----------------------------------------------------------------------------
(* The caller: one action per function of ecc.py.                          *)

\* No outcome yet: the call has not been made.
Pending == [pending |-> TRUE]

\* The calls the caller can make: a function name and its arguments.
Calls ==
    [op : {"mul", "add", "sub", "div"},
     args : [a : FieldInputs, b : FieldInputs]]
    \cup [op : {"neg", "sqr"}, args : [a : FieldInputs]]
    \cup [op : {"inverse"}, args : [a : InverseInputs]]
    \cup [op : {"Affine.neg", "Affine.double", "Affine.as_projective"},
          args : [self : AffinePoints]]
    \cup {c \in [op : {"Affine.add"},
                 args : [self : AffinePoints \cup {None},
                         rhs : AffinePoints \cup {None}]] :
            SameCurve(c.args.self, c.args.rhs)}
    \cup [op : {"Projective.neg"}, args : [self : Triples]]
    \cup [op : {"Projective.as_affine"}, args : [self : ProjectivePoints]]
    \cup {c \in [op : {"Projective.add"},
                 args : [self : ProjectivePoints, rhs : ProjectivePoints]] :
            SameCurve(AffineOf(c.args.self), AffineOf(c.args.rhs))}

\* The call op(args) is made and its outcome recorded.
Call(name, outcome) ==
    /\ op = name
    /\ res = Pending
    /\ res' = outcome
    /\ UNCHANGED <<op, args>>

Call_mul == Call("mul", mul(args.a, args.b))

Call_add == Call("add", add(args.a, args.b))

Call_sub == Call("sub", sub(args.a, args.b))

Call_neg == Call("neg", neg(args.a))

Call_sqr == Call("sqr", sqr(args.a))

Call_div == Call("div", div(args.a, args.b))

Call_inverse == Call("inverse", inverse(args.a))

Call_Affine_neg == Call("Affine.neg", Affine_neg(args.self))

Call_Affine_add == Call("Affine.add", Affine_add(args.self, args.rhs))

Call_Affine_double == Call("Affine.double", Affine_double(args.self))

Call_Affine_as_projective ==
    Call("Affine.as_projective", Affine_as_projective(args.self))

Call_Projective_neg == Call("Projective.neg", Projective_neg(args.self))

Call_Projective_as_affine ==
    Call("Projective.as_affine", Projective_as_affine(args.self))

Call_Projective_add ==
    Call("Projective.add", Projective_add(args.self, args.rhs))

Init ==
    /\ \E c \in Calls : op = c.op /\ args = c.args
    /\ res = Pending

Next ==
    \/ Call_mul
    \/ Call_add
    \/ Call_sub
    \/ Call_neg
    \/ Call_sqr
    \/ Call_div
    \/ Call_inverse
    \/ Call_Affine_neg
    \/ Call_Affine_add
    \/ Call_Affine_double
    \/ Call_Affine_as_projective
    \/ Call_Projective_neg
    \/ Call_Projective_as_affine
    \/ Call_Projective_add

Spec == Init /\ [][Next]_vars

----------------------------------------------------------------------------
(* Properties.                                                             *)

\* The call op(args) has been made.
Done(name) == op = name /\ res # Pending

\* The group negative of a non-identity point, by the mathematical
\* definition: (x, -y mod p).
Negate(P) == Affine(P.x, (MOD - P.y) % MOD)

\* A call of a field function on elements of the field.
InFieldCall ==
    /\ args.a \in FieldElems
    /\ "b" \in DOMAIN args => args.b \in FieldElems

\* C3: on field elements a, b the field functions return the reduced
\* reference value, which lies in [0, p): add gives (a + b) mod p, sub gives
\* (a - b) mod p, mul gives (a * b) mod p, neg gives (-a) mod p, and
\* add(a, neg(a)) = 0.
C3_FieldOps ==
    /\ (Done("add") /\ InFieldCall) =>
          /\ Ok(res) /\ res.v \in FieldElems
          /\ res.v = (args.a + args.b) % MOD
    /\ (Done("sub") /\ InFieldCall) =>
          /\ Ok(res) /\ res.v \in FieldElems
          /\ res.v = (args.a - args.b) % MOD
    /\ (Done("mul") /\ InFieldCall) =>
          /\ Ok(res) /\ res.v \in FieldElems
          /\ res.v = (args.a * args.b) % MOD
    /\ (Done("neg") /\ InFieldCall) =>
          /\ Ok(res) /\ res.v \in FieldElems
          /\ res.v = (0 - args.a) % MOD
          /\ add(args.a, res.v) = FieldCall(Ret(0))

\* C3 witness: an addition whose raw sum reaches p and is reduced.
C3_Witness ==
    /\ Done("add") /\ InFieldCall
    /\ args.a + args.b >= MOD
    /\ Ok(res) /\ res.v = args.a + args.b - MOD

\* C4: for a in (0, p) the Euclid loop of inverse ends with remainder 1 and
\* inverse returns t in (0, p) with mul(a, t) = 1; inverse(1) = 1 and
\* inverse(p - 1) = p - 1.
C4_Inverse ==
    (Done("inverse") /\ args.a \in 1 .. (MOD - 1)) =>
        /\ inverse_loop(0, 1, MOD, args.a).r = 1
        /\ Ok(res)
        /\ res.v \in 1 .. (MOD - 1)
        /\ mul(args.a, res.v) = FieldCall(Ret(1))
        /\ args.a = 1 => res.v = 1
        /\ args.a = MOD - 1 => res.v = MOD - 1

\* C4 witness: inverse(p - 1), where the loop ends with a negative
\* coefficient that is normalised to p - 1.
C4_Witness ==
    /\ Done("inverse") /\ args.a = MOD - 1
    /\ inverse_loop(0, 1, MOD, args.a).t < 0
    /\ Ok(res) /\ res.v = MOD - 1

\* C5: the identity is neutral on both sides of Affine.add, and the result
\* is returned without any field operation.
C5_Identity ==
    /\ (Done("Affine.add") /\ args.rhs = None) => res = Ret(args.self)
    /\ (Done("Affine.add") /\ args.self = None) => res = Ret(args.rhs)

\* C5 witness: a point of the curve added to the identity.
C5_Witness ==
    /\ Done("Affine.add")
    /\ args.self # None /\ args.rhs = None
    /\ res = Ret(args.self)

\* C6: for a non-identity point P, add(P, negate(P)) is the identity; a
\* point with y = 0 is its own negative, so add(P, P) and double(P) return
\* the identity and never reach the tangent division.
C6_Inverse ==
    /\ (Done("Affine.add") /\ args.self # None
            /\ args.rhs = Negate(args.self)) =>
          Ok(res) /\ res.v = None
    /\ (Done("Affine.double") /\ args.self.y = 0) =>
          Ok(res) /\ res.v = None

\* C6 witness: a point with y = 0 added to itself.
C6_Witness ==
    /\ Done("Affine.add")
    /\ args.self # None /\ args.rhs = args.self /\ args.self.y = 0
    /\ Ok(res) /\ res.v = None

\* C2: Affine.add is commutative, the identity included as an operand.
C2_Commutative ==
    Done("Affine.add") =>
        LET swapped == Affine_add(args.rhs, args.self)
        IN  Ok(res) /\ Ok(swapped) /\ res.v = swapped.v

\* C2 witness: two distinct points, not each other's negative, whose sum
\* is a point.
C2_Witness ==
    /\ Done("Affine.add")
    /\ args.self # None /\ args.rhs # None
    /\ args.self.x # args.rhs.x
    /\ Ok(res) /\ res.v # None

\* C1: for non-identity points P # Q, lifting both to projective
\* coordinates, adding them there and converting back gives Affine.add(P, Q);
\* for Q = negate(P) both are the identity.
C1_CrossRepresentation ==
    (Done("Affine.add") /\ args.self # None /\ args.rhs # None
        /\ args.self # args.rhs) =>
        LET lifted == Bind2(Projective_add,
                            Affine_as_projective(args.self),
                            Affine_as_projective(args.rhs))
            back == Bind1(Projective_as_affine, lifted)
        IN  /\ Ok(res) /\ Ok(back) /\ back.v = res.v
            /\ args.rhs = Negate(args.self) => (res.v = None /\ back.v = None)

\* C1 witness: a chord addition whose projective sum has z # 0.
C1_Witness ==
    /\ Done("Affine.add")
    /\ args.self # None /\ args.rhs # None /\ args.self # args.rhs
    /\ Ok(res) /\ res.v # None
    /\ Projective_add(Affine_as_projective(args.self).v,
                      Affine_as_projective(args.rhs).v).v.z # 0

\* C10: Affine.add and Affine.double on points of one curve never invert
\* zero and return the identity or a point of that curve with coordinates
\* in [0, p); double(P) for P.y # 0 is the tangent construction with slope
\* (3*P.x^2 + A) / (2*P.y).
C10_Closure ==
    /\ Done("Affine.add") =>
          /\ Ok(res)
          /\ OnCurveOf(res.v, args.self)
          /\ OnCurveOf(res.v, args.rhs)
          /\ (args.self = None /\ args.rhs = None) => res.v = None
    /\ Done("Affine.double") =>
          /\ Ok(res)
          /\ OnCurveOf(res.v, args.self)
          /\ args.self.y # 0 =>
                \E m \in FieldElems :
                    /\ (m * 2 * args.self.y) % MOD
                         = (3 * args.self.x * args.self.x + A) % MOD
                    /\ res.v.x = (m * m - 2 * args.self.x) % MOD
                    /\ res.v.y = (m * (args.self.x - res.v.x) - args.self.y)
                                    % MOD

\* C10 witness: a doubling that takes the tangent branch.
C10_Witness ==
    /\ Done("Affine.double")
    /\ args.self.y # 0
    /\ Ok(res) /\ res.v # None

\* C7: inverse(0), and div(a, 0) for a field element a, fail with a
\* dedicated DivisionByZero error.
C7_DivisionByZero ==
    /\ (Done("inverse") /\ args.a = 0) => res.exc = "DivisionByZero"
    /\ (Done("div") /\ args.a \in FieldElems /\ args.b = 0) =>
          res.exc = "DivisionByZero"

\* C8: Projective.add dispatches on the identity and doubling cases: with an
\* operand of z = 0 the result stands for the other operand, and for two
\* triples of the same point P with P.y # 0 the result stands for
\* Affine double(P) and is not the triple (0, 0, 0).
C8_ProjectiveDispatch ==
    Done("Projective.add") =>
        LET P == AffineOf(args.self)
            Q == AffineOf(args.rhs)
            back == Bind1(Projective_as_affine, res)
        IN  /\ Ok(back)
            /\ args.self.z = 0 => back.v = Q
            /\ args.rhs.z = 0 => back.v = P
            /\ (P # None /\ P = Q /\ P.y # 0) =>
                  /\ back.v = Affine_double(P).v
                  /\ res.v # Projective(0, 0, 0)

\* C9: Projective.neg on a triple of field elements returns the Projective
\* triple (x, -y mod p, z).
C9_ProjectiveNeg ==
    Done("Projective.neg") =>
        /\ Ok(res)
        /\ res.v = Projective(args.self.x, (MOD - args.self.y) % MOD,
                              args.self.z)

====
